---- MODULE Spec2Model ----
EXTENDS Integers, Sequences, FiniteSets, TLC

(***************************************************************************)
(* Model of CASIA.load_gnt_file (src/CASIA.py), the generator that decodes *)
(* a GNT file into (image, label) pairs, and of CASIA.get_dataset, which   *)
(* puts a dataset on disk.                                                 *)
(*                                                                         *)
(* One decoder instance is one generator object together with the file it  *)
(* opens.  The generator runs one source line per step; control is with    *)
(* the caller while pc is "created", "suspended" or "closed".              *)
(*                                                                         *)
(* The file is an input.  The decoder only ever reads it front to back, so *)
(* its content is revealed as the reads reach it: `written` holds the      *)
(* chunks the producer of the file put there (whole records, the last one  *)
(* possibly cut short) and `eof` says that nothing follows them.           *)
(***************************************************************************)

VARIABLES
    written,        \* per instance: the chunks of the file revealed so far
    eof,            \* per instance: the file ends after the revealed chunks
    pos,            \* per instance: f.tell(), bytes consumed from f
    pc,             \* per instance: position of the generator
    packed_length,  \* locals of load_gnt_file, per instance
    length,
    raw_label,
    width,
    height,
    photo_bytes,
    label,
    image,
    out,            \* per instance: the pairs the caller has received
    offsets,        \* per instance: f.tell() at each yield
    outcome,        \* per instance: how the generator ended
    result,         \* per instance: what the last next() gave the caller
    zip,            \* the file dataset + ".zip" on disk
    dir,            \* the directory dataset on disk
    made,           \* zip files there have been at that path
    gpc,            \* position of get_dataset
    success,        \* locals of get_dataset
    was_error,
    iteration,
    returned,       \* how the last call of get_dataset ended
    calls,          \* calls of get_dataset begun
    disk0,          \* zip and dir when the call in hand began
    log             \* what the call in hand did to the disk, in order

decoder == << written, eof, pos, pc, packed_length, length, raw_label, width,
              height, photo_bytes, label, image, out, offsets, outcome,
              result >>

retrieval == << zip, dir, made, gpc, success, was_error, iteration, returned,
                calls, disk0, log >>

vars == << decoder, retrieval >>

locals == << packed_length, length, raw_label, width, height, photo_bytes,
             label, image >>

----------------------------------------------------------------------------
(* Bounds and input sets *)

\* Records in a file.
MaxRecords == 2

\* Largest width and height a record of the model declares.
MaxWidth == 2

MaxHeight == 2

Inst == {1, 2, 3}

\* Locals of the generator before their first assignment: no byte string,
\* no number and no image the code can produce.
NoBytes == << -1 >>

NoInt == -1

NoImage == [size |-> << -1, -1 >>, data |-> << >>]

\* 196,227 is GB2312 for U+4F60; 65,66 is ASCII "AB"; 255,255 is no GB2312.
Labels == { <<196, 227>>, <<65, 66>>, <<255, 255>> }

Widths == 0..MaxWidth

Heights == 0..MaxHeight

\* The pixels the payloads are cut from.
PixelPattern ==
    << 7, 200, 9, 31, 64, 128, 12, 77, 150, 33, 180, 99, 21, 166, 48, 111 >>

----------------------------------------------------------------------------
(* Sequences of bytes *)

Min(a, b) == IF a < b THEN a ELSE b

Take(s, n) == SubSeq(s, 1, Min(n, Len(s)))

RECURSIVE Flatten(_)
Flatten(ss) == IF ss = << >> THEN << >> ELSE Head(ss) \o Flatten(Tail(ss))

RECURSIVE SeqMin(_)
SeqMin(s) == IF Len(s) = 1 THEN s[1] ELSE Min(s[1], SeqMin(Tail(s)))

RECURSIVE SeqMax(_)
SeqMax(s) == IF Len(s) = 1 THEN s[1]
             ELSE LET m == SeqMax(Tail(s)) IN IF s[1] > m THEN s[1] ELSE m

----------------------------------------------------------------------------
(* struct, codecs, numpy and scipy.misc as load_gnt_file uses them *)

StructError == "struct.error"

UnicodeDecodeError == "UnicodeDecodeError"

ValueError == "ValueError"

\* struct.unpack("<I", bs)[0] for a 4-byte bs
UnpackU32LE(bs) == bs[1] + 256 * bs[2] + 65536 * bs[3] + 16777216 * bs[4]

\* struct.unpack("<H", bs)[0] for a 2-byte bs
UnpackU16LE(bs) == bs[1] + 256 * bs[2]

\* The entries of the GB2312 table that the labels of the model reach.
Gb2312Table == (<<196, 227>> :> 20320)

\* decode(bs, encoding="gb2312") for a 2-byte bs raises UnicodeDecodeError
\* unless this holds.  Bytes below 128 are ASCII, one character each; a byte
\* from 128 on must lead a double-byte code of the table.
Gb2312Decodable(bs) ==
    IF bs[1] < 128 THEN bs[2] < 128 ELSE bs \in DOMAIN Gb2312Table

\* decode(bs, encoding="gb2312") for a decodable bs: the text, as code points
Gb2312Decode(bs) ==
    IF bs[1] < 128 THEN << bs[1], bs[2] >> ELSE << Gb2312Table[bs] >>

\* np.array(data).reshape(rows, cols) raises ValueError when this holds.
ReshapeRaises(data, rows, cols) == Len(data) # rows * cols

\* np.array(data).reshape(rows, cols): row-major, data unchanged
NpReshape(data, rows, cols) == [shape |-> << rows, cols >>, data |-> data]

\* scipy.misc.bytescale on a non-uint8 array (np.array of Python ints is
\* int64): stretches [min, max] onto [0, 255], rounding half up.
Bytescale(data) ==
    LET cmin == SeqMin(data)
        cmax == SeqMax(data)
        cscale == IF cmax - cmin = 0 THEN 1 ELSE cmax - cmin
    IN  [i \in 1..Len(data) |->
            Min(255, ((data[i] - cmin) * 510 + cscale) \div (2 * cscale))]

\* A toimage that makes an image without pixels of an array without elements.
ToImageAcceptsEmpty(arr) == FALSE

\* scipy.misc.toimage(arr) raises ValueError when this holds: bytescale takes
\* data.min(), which numpy refuses for an array without elements.
ToImageRaises(arr) == Len(arr.data) = 0

\* scipy.misc.toimage(arr) for a 2-D arr with elements: an 8-bit PIL image
\* of size (columns, rows) holding bytescale(arr), row after row.
ToImage(arr) ==
    [size |-> << arr.shape[2], arr.shape[1] >>, data |-> Bytescale(arr.data)]

----------------------------------------------------------------------------
(* The GNT layout, as the producer of a file writes it *)

PackU16LE(n) == << n % 256, (n \div 256) % 256 >>

PackU32LE(n) == << n % 256, (n \div 256) % 256, (n \div 65536) % 256,
                   (n \div 16777216) % 256 >>

\* length(4, LE) | label(2) | width(2, LE) | height(2, LE) | pixels
EncodeRecord(len, lab, w, h, pix) ==
    PackU32LE(len) \o lab \o PackU16LE(w) \o PackU16LE(h) \o pix

\* The size a producer stores in the length field: the whole record.
RecordSize(w, h) == 10 + w * h

\* The records a producer may write: every label with every size.
Records ==
    { [lab |-> lab, w |-> w, h |-> h, pix |-> Take(PixelPattern, w * h)] :
        lab \in Labels, w \in Widths, h \in Heights }

\* A record as the producer stores it, the length field holding its size.
Stored(r) == EncodeRecord(RecordSize(r.w, r.h), r.lab, r.w, r.h, r.pix)

\* The records of the files that are decoded twice: one row of pixels each.
TwinRecords == { r \in Records : r.h = 1 /\ r.w <= 2 }

\* The records of the files that are decoded side by side: one pixel each.
PairRecords == { r \in Records : r.h = 1 /\ r.w = 1 }

\* The records of the file the other generator decodes meanwhile.
SideRecords == { r \in PairRecords : r.lab = << 65, 66 >> }

\* Values a length field may hold that are the size of no record (the
\* largest the model checker's integers hold is 2^31 - 1).
WrongLengths == { 0, 2147483647 }

\* The chunk with len in its length field, as far as the chunk has one.
Relength(c, len) == Take(PackU32LE(len), Len(c)) \o SubSeq(c, 5, Len(c))

\* The proper, non-empty prefixes of a chunk: a record cut short.
Truncations(c) == { Take(c, k) : k \in 1..(Len(c) - 1) }

----------------------------------------------------------------------------
(* The file object f *)

File(d) == Flatten(written[d])

Avail(d) == Len(File(d)) - pos[d]

\* f.read(n): the next n bytes, or what is left of the file when less.
FRead(d, n) == SubSeq(File(d), pos[d] + 1, pos[d] + Min(n, Avail(d)))

\* A decoder that sizes the payload by the length field.
PayloadSizeFromLength(d) == length[d] - 10

\* height * width, the count of both the format string and the read
PayloadSize(d) == height[d] * width[d]

\* The bytes the read at the generator's position asks for.
Wanted(d) ==
    CASE pc[d] = "read_length" -> 4
      [] pc[d] = "read_label" -> 2
      [] pc[d] = "read_width" -> 2
      [] pc[d] = "read_height" -> 2
      [] pc[d] = "read_payload" -> PayloadSize(d)
      [] OTHER -> 0

\* The content of the file up to the read is known.
Readable(d) == eof[d] \/ Avail(d) >= Wanted(d)

\* No generator has run.
InitDecoder ==
    /\ written = [d \in Inst |-> << >>]
    /\ eof = [d \in Inst |-> FALSE]
    /\ pos = [d \in Inst |-> 0]
    /\ pc = [d \in Inst |-> "created"]
    /\ packed_length = [d \in Inst |-> NoBytes]
    /\ length = [d \in Inst |-> NoInt]
    /\ raw_label = [d \in Inst |-> NoBytes]
    /\ width = [d \in Inst |-> NoInt]
    /\ height = [d \in Inst |-> NoInt]
    /\ photo_bytes = [d \in Inst |-> NoBytes]
    /\ label = [d \in Inst |-> NoBytes]
    /\ image = [d \in Inst |-> NoImage]
    /\ out = [d \in Inst |-> << >>]
    /\ offsets = [d \in Inst |-> << >>]
    /\ outcome = [d \in Inst |-> "none"]
    /\ result = [d \in Inst |-> "none"]

\* What may lie at the path dataset + ".zip": nothing, the front part of an
\* archive, a whole file that is no sound archive, or the archive.  id tells
\* the files that have been at that path apart.
NoZip == [kind |-> "absent", id |-> 0]

ZipKinds == {"partial", "corrupt", "good"}

\* What may lie at the path dataset: nothing, a directory holding a part of
\* the dataset, or the directory holding all of it.
DirStates == {"absent", "partial", "complete"}

\* Before the first call the dataset is on disk or it is not.
InitDirs == {"absent", "complete"}

\* No call of get_dataset has begun, with z and di on disk.
Idle(z, di) ==
    /\ zip = z
    /\ dir = di
    /\ made = z.id
    /\ gpc = "idle"
    /\ success = FALSE
    /\ was_error = FALSE
    /\ iteration = NoInt
    /\ returned = "none"
    /\ calls = 0
    /\ disk0 = << z, di >>
    /\ log = << >>

\* The decoders start on their files; no dataset is fetched.
Init == InitDecoder /\ Idle(NoZip, "absent")

\* get_dataset starts on a disk in any state; no decoder runs.
InitDataset ==
    /\ InitDecoder
    /\ \E z \in {NoZip} \cup { [kind |-> k, id |-> 1] : k \in ZipKinds } :
          \E di \in InitDirs : Idle(z, di)

\* The read at the generator's position reaches past what is revealed of the
\* file: the file ends there, or goes on with one more record, whole or cut.
Reveal(d, recs) ==
    /\ ~eof[d]
    /\ Avail(d) < Wanted(d)
    /\ \/ /\ eof' = [eof EXCEPT ![d] = TRUE]
          /\ UNCHANGED written
       \/ /\ Len(written[d]) < MaxRecords
          /\ \E r \in recs :
                \/ /\ written' = [written EXCEPT ![d] = Append(@, Stored(r))]
                   /\ UNCHANGED eof
                \/ \E c \in Truncations(Stored(r)) :
                      /\ written' = [written EXCEPT ![d] = Append(@, c)]
                      /\ eof' = [eof EXCEPT ![d] = TRUE]
    /\ UNCHANGED << pos, pc, locals, out, offsets, outcome, result >>
    /\ UNCHANGED retrieval

\* The file of d is the file of e with other values in its length fields:
\* what e's file was found to hold, chunk by chunk, and then its end.
RevealTwin(d, e) ==
    /\ pc[e] = "closed"
    /\ ~eof[d]
    /\ Avail(d) < Wanted(d)
    /\ IF Len(written[d]) >= Len(written[e])
       THEN /\ eof' = [eof EXCEPT ![d] = TRUE]
            /\ UNCHANGED written
       ELSE /\ \E len \in WrongLengths :
                  written' = [written EXCEPT ![d] =
                      Append(@, Relength(written[e][Len(written[d]) + 1], len))]
            /\ UNCHANGED eof
    /\ UNCHANGED << pos, pc, locals, out, offsets, outcome, result >>
    /\ UNCHANGED retrieval

\* The file of d holds the bytes of the file of e: what e's file was found
\* to hold, chunk by chunk, and then its end.
RevealCopy(d, e) ==
    /\ pc[e] = "closed"
    /\ ~eof[d]
    /\ Avail(d) < Wanted(d)
    /\ IF Len(written[d]) >= Len(written[e])
       THEN /\ eof' = [eof EXCEPT ![d] = TRUE]
            /\ UNCHANGED written
       ELSE /\ written' = [written EXCEPT ![d] =
                   Append(@, written[e][Len(written[d]) + 1])]
            /\ UNCHANGED eof
    /\ UNCHANGED << pos, pc, locals, out, offsets, outcome, result >>
    /\ UNCHANGED retrieval

----------------------------------------------------------------------------
(* The generator *)

\* An exception leaves the with block (f is closed) and ends the generator.
Raise(d, exc) ==
    /\ pc' = [pc EXCEPT ![d] = "closed"]
    /\ outcome' = [outcome EXCEPT ![d] = exc]
    /\ result' = [result EXCEPT ![d] = exc]

Goto(d, where) ==
    /\ pc' = [pc EXCEPT ![d] = where]
    /\ UNCHANGED << outcome, result >>

\* A generator that next() starts over once it has ended.
PullRestarting(d) ==
    /\ pc[d] \in {"created", "suspended", "closed"}
    /\ pc' = [pc EXCEPT ![d] = IF pc[d] = "suspended" THEN "read_length"
                                ELSE "open"]
    /\ result' = [result EXCEPT ![d] = "running"]
    /\ UNCHANGED << written, eof, pos, locals, out, offsets, outcome >>
    /\ UNCHANGED retrieval

\* next() on a generator that has not ended: runs it to its next yield.
Pull(d) ==
    /\ pc[d] \in {"created", "suspended"}
    /\ pc' = [pc EXCEPT ![d] = IF pc[d] = "created" THEN "open"
                                ELSE "read_length"]
    /\ result' = [result EXCEPT ![d] = "running"]
    /\ UNCHANGED << written, eof, pos, locals, out, offsets, outcome >>
    /\ UNCHANGED retrieval

\* next() on a generator that has ended: StopIteration, nothing runs.
PullEnded(d) ==
    /\ pc[d] = "closed"
    /\ result' = [result EXCEPT ![d] = "StopIteration"]
    /\ UNCHANGED << written, eof, pos, pc, locals, out, offsets, outcome >>
    /\ UNCHANGED retrieval

\* A decoder that keeps the cursor in one place for all its instances:
\* opening a file rewinds every one of them.
OpenShared(d) ==
    /\ pc[d] = "open"
    /\ pos' = [e \in Inst |-> 0]
    /\ Goto(d, "read_length")
    /\ UNCHANGED << written, eof, locals, out, offsets >>
    /\ UNCHANGED retrieval

\* print(...); with open(filename, "rb") as f:
Open(d) ==
    /\ pc[d] = "open"
    /\ pos' = [pos EXCEPT ![d] = 0]
    /\ Goto(d, "read_length")
    /\ UNCHANGED << written, eof, locals, out, offsets >>
    /\ UNCHANGED retrieval

\* A decoder that takes any short read of the length field for the end.
ShortRead(bs) == Len(bs) < 4

\* A decoder without the test for the end of the stream.
NeverAtEnd(bs) == FALSE

\* if packed_length == b'':
AtEndOfStream(bs) == bs = << >>

\* packed_length = f.read(4); if packed_length == b'': break
ReadLength(d) ==
    /\ pc[d] = "read_length"
    /\ Readable(d)
    /\ LET bs == FRead(d, 4) IN
        /\ packed_length' = [packed_length EXCEPT ![d] = bs]
        /\ pos' = [pos EXCEPT ![d] = @ + Len(bs)]
        /\ IF AtEndOfStream(bs)
           THEN /\ pc' = [pc EXCEPT ![d] = "closed"]
                /\ outcome' = [outcome EXCEPT ![d] = "clean"]
                /\ result' = [result EXCEPT ![d] = "StopIteration"]
           ELSE Goto(d, "unpack_length")
    /\ UNCHANGED << written, eof, length, raw_label, width, height,
                    photo_bytes, label, image, out, offsets >>
    /\ UNCHANGED retrieval

\* length = struct.unpack("<I", packed_length)[0]
UnpackLength(d) ==
    /\ pc[d] = "unpack_length"
    /\ IF Len(packed_length[d]) # 4
       THEN /\ Raise(d, StructError)
            /\ UNCHANGED length
       ELSE /\ length' = [length EXCEPT ![d] = UnpackU32LE(packed_length[d])]
            /\ Goto(d, "read_label")
    /\ UNCHANGED << written, eof, pos, packed_length, raw_label, width,
                    height, photo_bytes, label, image, out, offsets >>
    /\ UNCHANGED retrieval

\* A decoder that decodes the label as soon as it has read it.
ReadLabelDecoding(d) ==
    /\ pc[d] = "read_label"
    /\ Readable(d)
    /\ LET bs == FRead(d, 2) IN
        /\ pos' = [pos EXCEPT ![d] = @ + Len(bs)]
        /\ IF Len(bs) # 2
           THEN /\ Raise(d, StructError)
                /\ UNCHANGED raw_label
           ELSE IF ~Gb2312Decodable(bs)
           THEN /\ Raise(d, UnicodeDecodeError)
                /\ UNCHANGED raw_label
           ELSE /\ raw_label' = [raw_label EXCEPT ![d] = << bs[1], bs[2] >>]
                /\ Goto(d, "read_width")
    /\ UNCHANGED << written, eof, packed_length, length, width, height,
                    photo_bytes, label, image, out, offsets >>
    /\ UNCHANGED retrieval

\* raw_label = struct.unpack(">cc", f.read(2))
ReadLabel(d) ==
    /\ pc[d] = "read_label"
    /\ Readable(d)
    /\ LET bs == FRead(d, 2) IN
        /\ pos' = [pos EXCEPT ![d] = @ + Len(bs)]
        /\ IF Len(bs) # 2
           THEN /\ Raise(d, StructError)
                /\ UNCHANGED raw_label
           ELSE /\ raw_label' = [raw_label EXCEPT ![d] = << bs[1], bs[2] >>]
                /\ Goto(d, "read_width")
    /\ UNCHANGED << written, eof, packed_length, length, width, height,
                    photo_bytes, label, image, out, offsets >>
    /\ UNCHANGED retrieval

\* width = struct.unpack("<H", f.read(2))[0]
ReadWidth(d) ==
    /\ pc[d] = "read_width"
    /\ Readable(d)
    /\ LET bs == FRead(d, 2) IN
        /\ pos' = [pos EXCEPT ![d] = @ + Len(bs)]
        /\ IF Len(bs) # 2
           THEN /\ Raise(d, StructError)
                /\ UNCHANGED width
           ELSE /\ width' = [width EXCEPT ![d] = UnpackU16LE(bs)]
                /\ Goto(d, "read_height")
    /\ UNCHANGED << written, eof, packed_length, length, raw_label, height,
                    photo_bytes, label, image, out, offsets >>
    /\ UNCHANGED retrieval

\* A decoder that reads the height as one byte: struct.unpack("<B", f.read(1))
ReadHeightOneByte(d) ==
    /\ pc[d] = "read_height"
    /\ Readable(d)
    /\ LET bs == FRead(d, 1) IN
        /\ pos' = [pos EXCEPT ![d] = @ + Len(bs)]
        /\ IF Len(bs) # 1
           THEN /\ Raise(d, StructError)
                /\ UNCHANGED height
           ELSE /\ height' = [height EXCEPT ![d] = bs[1]]
                /\ Goto(d, "read_payload")
    /\ UNCHANGED << written, eof, packed_length, length, raw_label, width,
                    photo_bytes, label, image, out, offsets >>
    /\ UNCHANGED retrieval

\* height = struct.unpack("<H", f.read(2))[0]
ReadHeight(d) ==
    /\ pc[d] = "read_height"
    /\ Readable(d)
    /\ LET bs == FRead(d, 2) IN
        /\ pos' = [pos EXCEPT ![d] = @ + Len(bs)]
        /\ IF Len(bs) # 2
           THEN /\ Raise(d, StructError)
                /\ UNCHANGED height
           ELSE /\ height' = [height EXCEPT ![d] = UnpackU16LE(bs)]
                /\ Goto(d, "read_payload")
    /\ UNCHANGED << written, eof, packed_length, length, raw_label, width,
                    photo_bytes, label, image, out, offsets >>
    /\ UNCHANGED retrieval

\* A decoder that keeps whatever the payload read returns, as
\* np.frombuffer(f.read(height * width), dtype=np.uint8) would.
ReadPayloadUnchecked(d) ==
    /\ pc[d] = "read_payload"
    /\ Readable(d)
    /\ LET bs == FRead(d, PayloadSize(d)) IN
        /\ pos' = [pos EXCEPT ![d] = @ + Len(bs)]
        /\ photo_bytes' = [photo_bytes EXCEPT ![d] = bs]
        /\ Goto(d, "decode_label")
    /\ UNCHANGED << written, eof, packed_length, length, raw_label, width,
                    height, label, image, out, offsets >>
    /\ UNCHANGED retrieval

\* photo_bytes = struct.unpack("{}B".format(height * width),
\*                             f.read(height * width))
ReadPayload(d) ==
    /\ pc[d] = "read_payload"
    /\ Readable(d)
    /\ LET bs == FRead(d, PayloadSize(d)) IN
        /\ pos' = [pos EXCEPT ![d] = @ + Len(bs)]
        /\ IF Len(bs) # PayloadSize(d)
           THEN /\ Raise(d, StructError)
                /\ UNCHANGED photo_bytes
           ELSE /\ photo_bytes' = [photo_bytes EXCEPT ![d] = bs]
                /\ Goto(d, "decode_label")
    /\ UNCHANGED << written, eof, packed_length, length, raw_label, width,
                    height, label, image, out, offsets >>
    /\ UNCHANGED retrieval

\* A decoder that drops a record whose label does not decode and goes on.
DecodeLabelSkipping(d) ==
    /\ pc[d] = "decode_label"
    /\ IF ~Gb2312Decodable(raw_label[d])
       THEN /\ Goto(d, "read_length")
            /\ UNCHANGED label
       ELSE /\ label' = [label EXCEPT ![d] = Gb2312Decode(raw_label[d])]
            /\ Goto(d, "toimage")
    /\ UNCHANGED << written, eof, pos, packed_length, length, raw_label,
                    width, height, photo_bytes, image, out, offsets >>
    /\ UNCHANGED retrieval

\* label = decode(raw_label[0] + raw_label[1], encoding="gb2312")
DecodeLabel(d) ==
    /\ pc[d] = "decode_label"
    /\ IF ~Gb2312Decodable(raw_label[d])
       THEN /\ Raise(d, UnicodeDecodeError)
            /\ UNCHANGED label
       ELSE /\ label' = [label EXCEPT ![d] = Gb2312Decode(raw_label[d])]
            /\ Goto(d, "toimage")
    /\ UNCHANGED << written, eof, pos, packed_length, length, raw_label,
                    width, height, photo_bytes, image, out, offsets >>
    /\ UNCHANGED retrieval

\* image = toimage(np.array(photo_bytes).reshape(height, width))
MakeImage(d) ==
    /\ pc[d] = "toimage"
    /\ LET arr == NpReshape(photo_bytes[d], height[d], width[d]) IN
        IF \/ ReshapeRaises(photo_bytes[d], height[d], width[d])
           \/ ToImageRaises(arr)
        THEN /\ Raise(d, ValueError)
             /\ UNCHANGED image
        ELSE /\ image' = [image EXCEPT ![d] = ToImage(arr)]
             /\ Goto(d, "yield")
    /\ UNCHANGED << written, eof, pos, packed_length, length, raw_label,
                    width, height, photo_bytes, label, out, offsets >>
    /\ UNCHANGED retrieval

\* yield image, label
Yield(d) ==
    /\ pc[d] = "yield"
    /\ out' = [out EXCEPT ![d] =
                  Append(@, [image |-> image[d], label |-> label[d]])]
    /\ offsets' = [offsets EXCEPT ![d] = Append(@, pos[d])]
    /\ pc' = [pc EXCEPT ![d] = "suspended"]
    /\ result' = [result EXCEPT ![d] = "item"]
    /\ UNCHANGED << written, eof, pos, locals, outcome >>
    /\ UNCHANGED retrieval

\* One line of the generator of instance d, or a next() of its caller.
Step(d) ==
    \/ Pull(d)
    \/ PullEnded(d)
    \/ Open(d)
    \/ ReadLength(d)
    \/ UnpackLength(d)
    \/ ReadLabel(d)
    \/ ReadWidth(d)
    \/ ReadHeight(d)
    \/ ReadPayload(d)
    \/ DecodeLabel(d)
    \/ MakeImage(d)
    \/ Yield(d)

\* One decoder on one file.
Next ==
    \/ Step(1)
    \/ Reveal(1, Records)

Spec == Init /\ [][Next]_vars

\* Instance d runs once instance e has ended.
StepAfter(d, e) == pc[e] = "closed" /\ Step(d)

\* One file decoded, then the same file with other length fields decoded.
NextTwin ==
    \/ Step(1)
    \/ Reveal(1, TwinRecords)
    \/ StepAfter(2, 1)
    \/ RevealTwin(2, 1)

SpecTwin == Init /\ [][NextTwin]_vars

\* Instance d runs once every other instance of ds has ended.
StepAlone(d, ds) == (\A e \in ds \ {d} : pc[e] = "closed") /\ Step(d)

\* Two generators on two files, their lines in any order; then the first
\* file decoded once more with no other generator running.
NextPair ==
    \/ Step(1)
    \/ Reveal(1, PairRecords)
    \/ Step(2)
    \/ Reveal(2, SideRecords)
    \/ StepAlone(3, Inst)
    \/ RevealCopy(3, 1)

SpecPair == Init /\ [][NextPair]_vars

----------------------------------------------------------------------------
(* get_dataset *)

\* Calls of get_dataset on the one dataset, one after the other.
MaxCalls == 2

\* for iteration in range(5)
Attempts == 5

FileNotFoundError == "FileNotFoundError"

\* DLProgress(unit='B', unit_scale=True, miniters=1, desc=dataset) raises
\* TypeError: DLProgress.__init__(self) takes no keyword argument.  The with
\* statement of line 82 never reaches its body.
DLProgressRaises == TRUE

\* urlretrieve(url, zip_path, hook), were it called: it returns with a whole
\* file written, the archive or whatever else the server sent, or raises
\* with no file (no connection) or the front part of one (transfer broken).
Urlretrieve ==
    { [ok |-> TRUE, kind |-> "good"], [ok |-> TRUE, kind |-> "corrupt"],
      [ok |-> FALSE, kind |-> "absent"], [ok |-> FALSE, kind |-> "partial"] }

\* zipfile.ZipFile(zip_path).extractall(path=dataset) on a file of kind k
\* with no directory there.  ZipFile() raises for no file (FileNotFoundError)
\* and for a file without a sound directory of members (BadZipFile), nothing
\* written; extractall writes the members into dataset one by one and raises
\* at the first damaged one, the directory and the members before it left.
ExtractAll(k) ==
    CASE k = "good" -> { [ok |-> TRUE, dir |-> "complete"] }
      [] k = "corrupt" -> { [ok |-> FALSE, dir |-> "absent"],
                            [ok |-> FALSE, dir |-> "partial"] }
      [] OTHER -> { [ok |-> FALSE, dir |-> "absent"] }

\* An operation on the disk, noted as it is begun: which, in which
\* iteration, on which zip file, and whether it went through.
Note(op, zid, ok) ==
    log' = Append(log, [op |-> op, it |-> iteration, zid |-> zid, ok |-> ok])

\* self.get_dataset(dataset), from get_all_datasets, load_character_images
\* or load_dataset; success = True
Call ==
    /\ gpc = "idle"
    /\ calls < MaxCalls
    /\ calls' = calls + 1
    /\ success' = TRUE
    /\ was_error' = FALSE
    /\ iteration' = NoInt
    /\ returned' = "running"
    /\ disk0' = << zip, dir >>
    /\ log' = << >>
    /\ gpc' = "isdir"
    /\ UNCHANGED << zip, dir, made >>
    /\ UNCHANGED decoder

\* A get_dataset that does not look for the directory first.
CheckPresentNever ==
    /\ gpc = "isdir"
    /\ was_error' = FALSE
    /\ gpc' = "for"
    /\ UNCHANGED << zip, dir, made, success, iteration, returned, calls,
                    disk0, log >>
    /\ UNCHANGED decoder

\* if not isdir(dataset): was_error = False
CheckPresent ==
    /\ gpc = "isdir"
    /\ IF dir # "absent"
       THEN /\ gpc' = "return"
            /\ UNCHANGED was_error
       ELSE /\ was_error' = FALSE
            /\ gpc' = "for"
    /\ UNCHANGED << zip, dir, made, success, iteration, returned, calls,
                    disk0, log >>
    /\ UNCHANGED decoder

\* for iteration in range(5):
ForLoop ==
    /\ gpc = "for"
    /\ LET nxt == IF iteration = NoInt THEN 0 ELSE iteration + 1 IN
        IF nxt < Attempts
        THEN /\ iteration' = nxt
             /\ gpc' = "guard"
        ELSE /\ gpc' = "after_loop"
             /\ UNCHANGED iteration
    /\ UNCHANGED << zip, dir, made, success, was_error, returned, calls,
                    disk0, log >>
    /\ UNCHANGED decoder

\* A loop that downloads anew in every iteration.
GuardRetrying ==
    /\ gpc = "guard"
    /\ gpc' = "download"
    /\ UNCHANGED << zip, dir, made, success, was_error, iteration, returned,
                    calls, disk0, log >>
    /\ UNCHANGED decoder

\* if iteration == 0 or was_error is True: zip_path = dataset + ".zip"
Guard ==
    /\ gpc = "guard"
    /\ gpc' = IF iteration = 0 \/ was_error THEN "isfile" ELSE "for"
    /\ UNCHANGED << zip, dir, made, success, was_error, iteration, returned,
                    calls, disk0, log >>
    /\ UNCHANGED decoder

\* if not isfile(zip_path):
CheckZip ==
    /\ gpc = "isfile"
    /\ gpc' = IF zip.kind = "absent" THEN "download" ELSE "isdir_again"
    /\ UNCHANGED << zip, dir, made, success, was_error, iteration, returned,
                    calls, disk0, log >>
    /\ UNCHANGED decoder

\* try: with DLProgress(...) as pbar: urlretrieve(url, zip_path, pbar.hook)
\* except Exception as ex: print(...); was_error = True
Download ==
    /\ gpc = "download"
    /\ IF DLProgressRaises
       THEN /\ Note("download", zip.id, FALSE)
            /\ was_error' = TRUE
            /\ UNCHANGED << zip, made >>
       ELSE \E u \in Urlretrieve :
              /\ Note("download", made + 1, u.ok)
              /\ was_error' = (was_error \/ ~u.ok)
              /\ IF u.kind = "absent"
                 THEN UNCHANGED << zip, made >>
                 ELSE /\ zip' = [kind |-> u.kind, id |-> made + 1]
                      /\ made' = made + 1
    /\ gpc' = "isdir_again"
    /\ UNCHANGED << dir, success, iteration, returned, calls, disk0 >>
    /\ UNCHANGED decoder

\* if not isdir(dataset):
CheckDir ==
    /\ gpc = "isdir_again"
    /\ gpc' = IF dir = "absent" THEN "extract" ELSE "for"
    /\ UNCHANGED << zip, dir, made, success, was_error, iteration, returned,
                    calls, disk0, log >>
    /\ UNCHANGED decoder

\* try: with zipfile.ZipFile(zip_path) as zip_archive:
\*          zip_archive.extractall(path=dataset); zip_archive.close()
Extract ==
    /\ gpc = "extract"
    /\ \E x \in ExtractAll(zip.kind) :
          /\ Note("extract", zip.id, x.ok)
          /\ dir' = x.dir
          /\ gpc' = IF x.ok THEN "for" ELSE "except"
    /\ UNCHANGED << zip, made, success, was_error, iteration, returned,
                    calls, disk0 >>
    /\ UNCHANGED decoder

\* A handler that leaves the zip file where it is.
ExceptUnzipKeeping ==
    /\ gpc = "except"
    /\ was_error' = TRUE
    /\ gpc' = "for"
    /\ UNCHANGED << zip, dir, made, success, iteration, returned, calls,
                    disk0, log >>
    /\ UNCHANGED decoder

\* except Exception as ex: print(...); remove(zip_path); was_error = True
\* remove raises FileNotFoundError when there is no file at zip_path; raised
\* in the handler, it leaves get_dataset.
ExceptUnzip ==
    /\ gpc = "except"
    /\ IF zip.kind = "absent"
       THEN /\ Note("remove", zip.id, FALSE)
            /\ returned' = FileNotFoundError
            /\ gpc' = "idle"
            /\ UNCHANGED << zip, was_error >>
       ELSE /\ Note("remove", zip.id, TRUE)
            /\ zip' = NoZip
            /\ was_error' = TRUE
            /\ gpc' = "for"
            /\ UNCHANGED returned
    /\ UNCHANGED << dir, made, success, iteration, calls, disk0 >>
    /\ UNCHANGED decoder

\* if was_error: print(...); success = False
AfterLoop ==
    /\ gpc = "after_loop"
    /\ success' = IF was_error THEN FALSE ELSE success
    /\ gpc' = "return"
    /\ UNCHANGED << zip, dir, made, was_error, iteration, returned, calls,
                    disk0, log >>
    /\ UNCHANGED decoder

\* return success
Return ==
    /\ gpc = "return"
    /\ returned' = IF success THEN "True" ELSE "False"
    /\ gpc' = "idle"
    /\ UNCHANGED << zip, dir, made, success, was_error, iteration, calls,
                    disk0, log >>
    /\ UNCHANGED decoder

\* One line of get_dataset, or a call of it.
NextDataset ==
    \/ Call
    \/ CheckPresent
    \/ ForLoop
    \/ Guard
    \/ CheckZip
    \/ Download
    \/ CheckDir
    \/ Extract
    \/ ExceptUnzip
    \/ AfterLoop
    \/ Return

SpecDataset == InitDataset /\ [][NextDataset]_vars

----------------------------------------------------------------------------
(* Vocabulary of the properties *)

\* A chunk without its length field.
Body(c) == SubSeq(c, 5, Len(c))

\* The fields the producer put in a chunk that has its 10 header bytes: the
\* layout of EncodeRecord read back, pix being what is there of the pixels.
FieldsOf(c) ==
    [lab |-> SubSeq(c, 5, 6),
     w |-> c[7] + 256 * c[8],
     h |-> c[9] + 256 * c[10],
     pix |-> SubSeq(c, 11, Len(c))]

\* The chunk is a record in full, whatever its length field says.
Whole(c) ==
    /\ Len(c) >= 10
    /\ Len(c) = RecordSize(FieldsOf(c).w, FieldsOf(c).h)

\* A whole record with a decodable label.
WellFormed(c) == Whole(c) /\ Gb2312Decodable(FieldsOf(c).lab)

\* The chunk has its 10 header bytes and less payload than they announce.
ShortPayload(c) ==
    /\ Len(c) >= 10
    /\ Len(c) < RecordSize(FieldsOf(c).w, FieldsOf(c).h)

\* The chunk breaks off inside the header.
PartialHeader(c) == Len(c) \in 1..9

RECURSIVE TotalLen(_)
TotalLen(cs) == IF cs = << >> THEN 0 ELSE Len(Head(cs)) + TotalLen(Tail(cs))

\* Offset in the file of the first byte of chunk k.
Start(d, k) == TotalLen(SubSeq(written[d], 1, k - 1))

Ended(d) == pc[d] = "closed"

Failed(d) == outcome[d] \in {StructError, UnicodeDecodeError, ValueError}

\* The generator ended while decoding chunk k: the k-1 before it were yielded.
EndedIn(d, k) == Ended(d) /\ Len(out[d]) = k - 1 /\ k <= Len(written[d])

\* The pair is the label text of record r and the image toimage makes of
\* its pixels, height rows of width pixels.
FromRecord(pair, r) ==
    /\ pair.label = Gb2312Decode(r.lab)
    /\ pair.image = ToImage(NpReshape(r.pix, r.h, r.w))

----------------------------------------------------------------------------
(* Properties of one decoder, checked under Spec *)

\* C1: a file that is N well-formed records gives exactly N pairs, the i-th
\* from the i-th record, and the generator then ends without an error.  The
\* generator has ended and every record of the file it was given is well
\* formed: then it ended at the end of the file, cleanly, after N pairs.
C1_Sequencing ==
    (Ended(1) /\ \A i \in 1..Len(written[1]) : WellFormed(written[1][i]))
    => /\ outcome[1] = "clean"
       /\ eof[1]
       /\ Len(out[1]) = Len(written[1])
       /\ \A i \in 1..Len(out[1]) :
              FromRecord(out[1][i], FieldsOf(written[1][i]))

\* The same for records that declare at least one pixel.
SequencingOfNonEmptyImages ==
    ( /\ Ended(1)
      /\ \A i \in 1..Len(written[1]) :
            /\ WellFormed(written[1][i])
            /\ FieldsOf(written[1][i]).w * FieldsOf(written[1][i]).h > 0 )
    => /\ outcome[1] = "clean"
       /\ eof[1]
       /\ Len(out[1]) = Len(written[1])
       /\ \A i \in 1..Len(out[1]) :
              FromRecord(out[1][i], FieldsOf(written[1][i]))

\* C2: a record with its whole header and too few payload bytes is never
\* yielded, short or padded, and the generator that reaches it ends with
\* struct.error, not with a clean end of stream.
C2_TruncatedPayload ==
    \A k \in 1..Len(written[1]) :
        ShortPayload(written[1][k])
        => /\ Len(out[1]) < k
           /\ outcome[1] # "clean"
           /\ EndedIn(1, k) => /\ outcome[1] = StructError
                               /\ result[1] \in {StructError, "StopIteration"}
                               /\ pos[1] = Len(File(1))

C2_Witness ==
    /\ Len(written[1]) = 2
    /\ ShortPayload(written[1][2])
    /\ EndedIn(1, 2)
    /\ outcome[1] = StructError

\* C3: a file that breaks off after 1 to 9 bytes of a header never ends
\* cleanly: the generator that reaches the partial header ends with
\* struct.error, and nothing is yielded for it.
C3_PartialHeader ==
    \A k \in 1..Len(written[1]) :
        PartialHeader(written[1][k])
        => /\ Len(out[1]) < k
           /\ outcome[1] # "clean"
           /\ EndedIn(1, k) => outcome[1] = StructError

C3_Witness ==
    /\ Len(written[1]) = 2
    /\ Len(written[1][2]) = 3
    /\ EndedIn(1, 2)
    /\ outcome[1] = StructError

\* C4: when the read of the length field finds nothing left, the generator
\* ends cleanly: StopIteration, no error, no pair beyond those of the
\* records before; on an empty file that is no pair at all.
C4_CleanEnd ==
    /\ packed_length[1] = << >>
       => /\ Ended(1)
          /\ outcome[1] = "clean"
          /\ result[1] = "StopIteration"
          /\ eof[1] /\ pos[1] = Len(File(1))
          /\ Len(out[1]) = Len(written[1])
    /\ (Ended(1) /\ eof[1] /\ written[1] = << >>)
       => (outcome[1] = "clean" /\ out[1] = << >>)

C4_WitnessEmptyFile ==
    /\ packed_length[1] = << >>
    /\ written[1] = << >>
    /\ outcome[1] = "clean"

C4_WitnessAfterRecords ==
    /\ packed_length[1] = << >>
    /\ Len(out[1]) = 2

\* The size on disk of the record a yielded image came from.
SizeOf(pair) == 10 + pair.image.size[1] * pair.image.size[2]

RECURSIVE SumSizes(_)
SumSizes(pairs) ==
    IF pairs = << >> THEN 0 ELSE SizeOf(Head(pairs)) + SumSizes(Tail(pairs))

\* C5: while the caller holds k pairs and the generator waits, the cursor is
\* at the sum of 10 + width*height of those k records, the first byte of the
\* next length field, and no byte of a later record has been asked for;
\* before the first pull nothing has been read.
C5_CursorAtBoundary ==
    /\ pc[1] = "created" => (pos[1] = 0 /\ written[1] = << >>)
    /\ pc[1] \in {"suspended", "read_length"}
       => /\ pos[1] = SumSizes(out[1])
          /\ pos[1] = Start(1, Len(out[1]) + 1)
    /\ pc[1] = "suspended" => pos[1] = Len(File(1))
    /\ \A i \in 1..Len(offsets[1]) :
          offsets[1][i] = SumSizes(SubSeq(out[1], 1, i))

C5_Witness ==
    /\ pc[1] = "suspended"
    /\ Len(out[1]) = 2
    /\ pos[1] = 26

\* C6: once the generator has ended, by an error or cleanly, no next()
\* yields anything: it stays ended, the caller gets StopIteration, and the
\* pairs, the cursor and the way it ended stay as they are.  When it ended by
\* an error inside chunk k, the pairs yielded are those of the k-1 records
\* before it, all well formed, in order.
C6_EndIsFinal ==
    /\ [](Failed(1) =>
            /\ Ended(1)
            /\ Len(out[1]) < Len(written[1])
            /\ pos[1] > Start(1, Len(out[1]) + 1)
            /\ pos[1] <= Start(1, Len(out[1]) + 2)
            /\ \A i \in 1..Len(out[1]) :
                  /\ WellFormed(written[1][i])
                  /\ FromRecord(out[1][i], FieldsOf(written[1][i])))
    /\ [][Ended(1) =>
            /\ pc'[1] = "closed"
            /\ result'[1] = "StopIteration"
            /\ out'[1] = out[1]
            /\ pos'[1] = pos[1]
            /\ outcome'[1] = outcome[1]]_vars

C6_Witness ==
    /\ Failed(1)
    /\ Len(out[1]) = 1
    /\ result[1] = "StopIteration"

\* C8: a record written in the layout and decoded comes back with its label
\* and as an image of height rows and width columns whose pixel at row r,
\* column c is payload byte r*width + c.
C8_RoundTrip ==
    \A k \in 1..Len(out[1]) :
        WellFormed(written[1][k]) =>
            LET r == FieldsOf(written[1][k])
                img == out[1][k].image
            IN  /\ out[1][k].label = Gb2312Decode(r.lab)
                /\ img.size = << r.w, r.h >>
                /\ \A row \in 0..(r.h - 1) : \A col \in 0..(r.w - 1) :
                      img.data[row * r.w + col + 1] = r.pix[row * r.w + col + 1]

\* What does come back: label, size and the payload stretched by bytescale.
RoundTripUpToBytescale ==
    \A k \in 1..Len(out[1]) :
        WellFormed(written[1][k]) =>
            LET r == FieldsOf(written[1][k])
                img == out[1][k].image
            IN  /\ out[1][k].label = Gb2312Decode(r.lab)
                /\ img.size = << r.w, r.h >>
                /\ img.data = Bytescale(r.pix)

\* A well-formed record of width w and height h.
Sized(c, w, h) == WellFormed(c) /\ FieldsOf(c).w = w /\ FieldsOf(c).h = h

\* A well-formed record without pixels.
ZeroArea(c) == WellFormed(c) /\ FieldsOf(c).w * FieldsOf(c).h = 0

\* The cursor is past the header of chunk k and not past the chunk: payload
\* bytes of it have been read, and nothing after them.
CursorInPayload(d, k) ==
    /\ pos[d] > Start(d, k) + 10
    /\ pos[d] <= Start(d, k) + Len(written[d][k])

\* C9 as claimed: a 1x1 record and a record of width 0 or height 0 are
\* yielded, without an error and without a payload byte being read.
C9_NoPayloadRead ==
    \A k \in 1..Len(written[1]) :
        (Sized(written[1][k], 1, 1) \/ ZeroArea(written[1][k]))
        => /\ ~EndedIn(1, k)
           /\ ~CursorInPayload(1, k)
           /\ Len(offsets[1]) >= k => offsets[1][k] = Start(1, k) + 10

\* C9 as the code has it: a 1x1 record is yielded, without an error, after
\* exactly one payload byte was read; for a record of width 0 or height 0 no
\* payload byte is read and none is yielded: toimage raises ValueError.
C9_BoundarySizes ==
    \A k \in 1..Len(written[1]) :
        /\ Sized(written[1][k], 1, 1)
           => /\ ~EndedIn(1, k)
              /\ Len(offsets[1]) >= k
                 => /\ offsets[1][k] = Start(1, k) + 11
                    /\ out[1][k].image.size = << 1, 1 >>
        /\ ZeroArea(written[1][k])
           => /\ Len(out[1]) < k
              /\ EndedIn(1, k) => /\ outcome[1] = ValueError
                                  /\ pos[1] = Start(1, k) + 10

C9_Witness ==
    /\ Len(written[1]) = 2
    /\ Sized(written[1][1], 1, 1)
    /\ ZeroArea(written[1][2])
    /\ EndedIn(1, 2)
    /\ outcome[1] = ValueError

\* A whole record whose label bytes are not GB2312.
BadLabel(c) == Whole(c) /\ ~Gb2312Decodable(FieldsOf(c).lab)

\* C10: a record whose label bytes do not decode is never yielded and
\* nothing after it is: the generator that reaches it ends with
\* UnicodeDecodeError, raised to the caller.
C10_InvalidLabel ==
    \A k \in 1..Len(written[1]) :
        BadLabel(written[1][k])
        => /\ Len(out[1]) < k
           /\ outcome[1] # "clean"
           /\ EndedIn(1, k)
              => /\ outcome[1] = UnicodeDecodeError
                 /\ result[1] \in {UnicodeDecodeError, "StopIteration"}

C10_Witness ==
    /\ Len(written[1]) = 2
    /\ BadLabel(written[1][2])
    /\ EndedIn(1, 2)
    /\ result[1] = UnicodeDecodeError

\* The chunk has its 10 header bytes and label bytes that are not GB2312.
HeaderWithBadLabel(c) == Len(c) >= 10 /\ ~Gb2312Decodable(FieldsOf(c).lab)

\* C14 as claimed: the label is decoded before width, height and payload are
\* read.  A record with an undecodable label fails with the label error, no
\* payload byte of it consumed, also when its payload is cut short.
C14_LabelBeforePayload ==
    \A k \in 1..Len(written[1]) :
        HeaderWithBadLabel(written[1][k])
        => /\ ~CursorInPayload(1, k)
           /\ EndedIn(1, k) => outcome[1] = UnicodeDecodeError

\* C14 as the code has it: the label is decoded after the payload is read.
\* While width, height and payload of the first record are read no label
\* is decoded yet; a whole record with an undecodable label fails with
\* UnicodeDecodeError once all its payload is consumed; a record with an
\* undecodable label and too few payload bytes fails with struct.error.
C14_LabelAfterPayload ==
    /\ (out[1] = << >> /\ pc[1] \in {"read_width", "read_height",
                                      "read_payload", "decode_label"})
       => label[1] = NoBytes
    /\ \A k \in 1..Len(written[1]) :
          HeaderWithBadLabel(written[1][k])
          => /\ Len(out[1]) < k
             /\ (EndedIn(1, k) /\ Whole(written[1][k]))
                => /\ outcome[1] = UnicodeDecodeError
                   /\ pos[1] = Start(1, k) + Len(written[1][k])
             /\ (EndedIn(1, k) /\ ShortPayload(written[1][k]))
                => /\ outcome[1] = StructError
                   /\ pos[1] = Start(1, k) + Len(written[1][k])

C14_Witness ==
    /\ Len(written[1]) = 2
    /\ HeaderWithBadLabel(written[1][2])
    /\ ShortPayload(written[1][2])
    /\ Len(written[1][2]) > 10
    /\ EndedIn(1, 2)
    /\ outcome[1] = StructError

----------------------------------------------------------------------------
(* Properties of two decodings, checked under SpecTwin *)

\* The files of the two instances differ in their length fields only.
SameButLengths ==
    /\ Len(written[2]) <= Len(written[1])
    /\ \A k \in 1..Len(written[2]) :
          /\ Len(written[2][k]) = Len(written[1][k])
          /\ Body(written[2][k]) = Body(written[1][k])

\* C7: two files that differ only in the values of their length fields give
\* the same pairs, the same cursor at each pair and the same end, clean or
\* the same error at the same cursor.
C7_LengthIgnored ==
    /\ SameButLengths
    /\ \A i \in 1..Len(out[2]) :
          /\ i <= Len(out[1])
          /\ out[2][i] = out[1][i]
          /\ offsets[2][i] = offsets[1][i]
    /\ Ended(2) => /\ out[2] = out[1]
                   /\ outcome[2] = outcome[1]
                   /\ pos[2] = pos[1]

C7_Witness ==
    /\ Ended(2)
    /\ Len(out[2]) = 1
    /\ outcome[2] = StructError
    /\ \A k \in 1..Len(written[2]) :
          Take(written[2][k], 4) # Take(written[1][k], 4)

----------------------------------------------------------------------------
(* Properties of two decoders side by side, checked under SpecPair *)

\* All there is of instance d: its file, its cursor, its generator and what
\* its caller has got.
StateOf(d) ==
    << written[d], eof[d], pos[d], pc[d], packed_length[d], length[d],
       raw_label[d], width[d], height[d], photo_bytes[d], label[d],
       image[d], out[d], offsets[d], outcome[d], result[d] >>

\* C13: two generators on two files, run in any interleaving, each give the
\* pairs and the end they give alone.  No step changes anything of more
\* than one instance; and the first file, decoded again alone, gives the
\* same pairs at the same cursors and ends the same way at the same cursor.
C13_Independent ==
    /\ [][\E d \in Inst : \A e \in Inst \ {d} : StateOf(e)' = StateOf(e)]_vars
    /\ [](/\ \A i \in 1..Len(out[3]) :
               /\ i <= Len(out[1])
               /\ out[3][i] = out[1][i]
               /\ offsets[3][i] = offsets[1][i]
          /\ Ended(3) => /\ out[3] = out[1]
                         /\ offsets[3] = offsets[1]
                         /\ outcome[3] = outcome[1]
                         /\ pos[3] = pos[1])

\* Both files held two records, the generators ran side by side, and the
\* first file was decoded again to its end.
C13_Witness ==
    /\ Ended(3)
    /\ Len(out[3]) = 1
    /\ Len(out[2]) = 2
    /\ outcome[3] = UnicodeDecodeError
    /\ written[1] # written[2]

----------------------------------------------------------------------------
(* Properties of get_dataset, checked under SpecDataset *)

\* A call has been made and has ended, by a return or by an exception.
CallOver == calls > 0 /\ gpc = "idle"

\* The call in hand found no dataset directory when it began.
BeganWithoutDir == calls > 0 /\ disk0[2] = "absent"

\* The events of the log that are operations op.
Events(op) == { i \in 1..Len(log) : log[i].op = op }

\* The iterations of the loop that touched the disk: the attempts.
AttemptsMade == { log[i].it : i \in 1..Len(log) }

\* An attempt ended with the archive on disk and extracted.
SomeAttemptSucceeded == \E i \in Events("extract") : log[i].ok

\* C11: with no dataset directory, get_dataset makes up to five attempts and
\* its result tells how they went: True when one of them ended with the
\* archive downloaded and extracted, False when every one of them failed.
C11_RetryUntilSuccess ==
    (CallOver /\ BeganWithoutDir)
    => /\ Cardinality(AttemptsMade) <= Attempts
       /\ SomeAttemptSucceeded => returned = "True"
       /\ ~SomeAttemptSucceeded => returned = "False"

\* What the result does tell: True is returned when the first attempt
\* extracted a zip file that was already there, and never otherwise.
TrueOnlyFromFirstAttempt ==
    (CallOver /\ BeganWithoutDir)
    => (returned = "True"
        <=> (log = << [op |-> "extract", it |-> 0, zid |-> disk0[1].id,
                       ok |-> TRUE] >> /\ disk0[1].kind = "good"))

\* C12: a call that finds the dataset directory does nothing to the disk,
\* no download, no extraction, no deletion, and returns True.
C12_PresentIsUntouched ==
    (calls > 0 /\ disk0[2] # "absent")
    => /\ log = << >>
       /\ << zip, dir >> = disk0
       /\ gpc \in {"isdir", "return", "idle"}
       /\ gpc = "idle" => returned = "True"

C12_Witness ==
    /\ CallOver
    /\ calls = 1
    /\ disk0[2] = "complete"
    /\ disk0[1].kind = "absent"
    /\ returned = "True"

\* C15: a call begins at most five downloads and at most five extractions,
\* and after an iteration that ended with the zip file on disk and the
\* directory extracted no later iteration downloads, extracts or deletes.
C15_NoWorkAfterSuccess ==
    /\ Cardinality(Events("download")) <= Attempts
    /\ Cardinality(Events("extract")) <= Attempts
    /\ \A i \in Events("extract") :
          log[i].ok => /\ \A j \in 1..Len(log) : log[j].it <= log[i].it
                       /\ zip.kind # "absent"
                       /\ dir = "complete"

\* The first iteration extracted the archive and the other four have run.
C15_Witness ==
    /\ gpc = "after_loop"
    /\ iteration = Attempts - 1
    /\ SomeAttemptSucceeded
    /\ Len(log) = 1

\* The extractions of a zip file that failed in an attempt before the last.
FailedBeforeLast ==
    { i \in Events("extract") :
        ~log[i].ok /\ log[i].zid # 0 /\ log[i].it < Attempts - 1 }

\* C16: when the extraction of a zip file fails in an attempt before the
\* last, the file is deleted, the next attempt begins with a download, and
\* what that attempt extracts is an archive downloaded since, not the file
\* that failed and not nothing.
C16_RedownloadAfterBadZip ==
    \A i \in FailedBeforeLast :
        /\ i < Len(log) => /\ log[i + 1].op = "remove"
                           /\ log[i + 1].ok
                           /\ zip.id # log[i].zid
        /\ i + 1 < Len(log) => /\ log[i + 2].op = "download"
                               /\ log[i + 2].it = log[i].it + 1
        /\ \A j \in Events("extract") :
              j > i => log[j].zid > log[i].zid

\* What holds of it: the file is deleted, never extracted again, and the
\* next attempt begins with a download.
BadZipRemoved ==
    \A i \in FailedBeforeLast :
        /\ i < Len(log) => /\ log[i + 1].op = "remove"
                           /\ log[i + 1].ok
                           /\ zip.id # log[i].zid
        /\ i + 1 < Len(log) => /\ log[i + 2].op = "download"
                               /\ log[i + 2].it = log[i].it + 1
        /\ \A j \in Events("extract") :
              j > i => log[j].zid # log[i].zid

\* C17: every call ends by returning True or False; no exception leaves it.
C17_AlwaysReturnsBoolean == CallOver => returned \in {"True", "False"}

\* C18: when get_dataset returns True the directory holds the whole
\* dataset; what a failed extraction left there does not pass for it.
C18_TrueMeansComplete == (CallOver /\ returned = "True") => dir = "complete"

====
